---- MODULE Spec2Model ----
(***************************************************************************)
(* Model of insights-results-smart-proxy:                                  *)
(*   - the route table built by HTTPServer.addEndpointsToRouter and the    *)
(*     way the router resolves a request against it (SpecRouter);          *)
(*   - the URL builder MakeURLToEndpoint (SpecURL);                        *)
(*   - the command line entry point main/handleCommand (Spec).             *)
(*                                                                         *)
(* A Go string is a sequence of one-character strings, so that what the    *)
(* code does to its characters (lower-casing, trimming, splitting on       *)
(* slashes, placeholder substitution, formatting) is computed and not      *)
(* assumed.                                                                *)
(***************************************************************************)
EXTENDS Integers, Sequences, FiniteSets, TLC

VARIABLES
    \* ---- the HTTP server (package server) ----
    srvState,       \* "idle" | "new" | "serving" | "failed"
    srvConfig,      \* server.Config: [APIPrefix, Debug, APISpecFile]
    routes,         \* the router's routes, in registration order
    request,        \* the request the router is handling, or NoRequest
    response,       \* the handler it dispatched the request to
    \* ---- the process (package main) ----
    pc,             \* where main is
    osArgs,         \* os.Args[1:]
    flags,          \* what flag.Parse made of them
    flagsParsed,    \* flag.Parse was run
    configLoaded,   \* conf.LoadConfiguration returned no error
    command,        \* the command handed to handleCommand
    calls,          \* the functions called so far, in order
    errors,         \* the errors met so far
    exitStatus,     \* Running, or Exited(status)
    serverInstance, \* the server was created
    \* ---- a call of MakeURLToEndpoint ----
    urlState,       \* "idle" | "returned"
    urlCall,        \* its arguments: [apiPrefix, endpoint, args]
    urlResult       \* the string it returned

routerVars == <<srvState, srvConfig, routes, request, response>>
cliVars == <<pc, osArgs, flags, flagsParsed, configLoaded, command, calls, errors,
             exitStatus, serverInstance>>
urlVars == <<urlState, urlCall, urlResult>>
vars == <<routerVars, cliVars, urlVars>>

----------------------------------------------------------------------------
(* Bounds *)

\* number of distinct values a path variable takes in the requests tried
MaxVals == 2

\* number of command line arguments tried
MaxOsArgs == 2

\* number of pieces (a placeholder or one character) of the templates tried
MaxPieces == 3

\* number of arguments handed to MakeURLToEndpoint
MaxURLArgs == 2

----------------------------------------------------------------------------
(* Strings *)

LowerCaseLetters == <<"a", "b", "c", "d", "e", "f", "g", "h", "i", "j", "k", "l", "m", "n", "o", "p", "q", "r", "s", "t", "u", "v", "w", "x", "y", "z">>  \* "abcdefghijklmnopqrstuvwxyz"
UpperCaseLetters == <<"A", "B", "C", "D", "E", "F", "G", "H", "I", "J", "K", "L", "M", "N", "O", "P", "Q", "R", "S", "T", "U", "V", "W", "X", "Y", "Z">>  \* "ABCDEFGHIJKLMNOPQRSTUVWXYZ"
Digits == <<"0", "1", "2", "3", "4", "5", "6", "7", "8", "9">>  \* "0123456789"

Range(s) == {s[i] : i \in 1..Len(s)}

\* the characters the class [a-zA-Z_0-9] holds
WordChars == Range(LowerCaseLetters) \cup Range(UpperCaseLetters) \cup Range(Digits) \cup {"_"}

\* the index of the first element of s that is in set, 0 with none
IndexAny(s, set) ==
    LET hits == {i \in 1..Len(s) : s[i] \in set}
    IN  IF hits = {} THEN 0 ELSE CHOOSE i \in hits : \A j \in hits : i <= j

\* the index of the last element of s that is not in set, 0 with none
LastIndexNot(s, set) ==
    LET hits == {i \in 1..Len(s) : s[i] \notin set}
    IN  IF hits = {} THEN 0 ELSE CHOOSE i \in hits : \A j \in hits : j <= i

From(s, i) == SubSeq(s, i, Len(s))

\* unicode.ToLower on one character
ToLowerChar(c) ==
    LET i == IndexAny(UpperCaseLetters, {c})
    IN  IF i > 0 THEN LowerCaseLetters[i] ELSE c

\* strings.ToLower
ToLower(s) == [i \in 1..Len(s) |-> ToLowerChar(s[i])]

WhiteSpace == {" ", "\t", "\n", "\r"}

\* strings.TrimSpace: leading and trailing white space removed
TrimSpace(s) ==
    LET keep == {i \in 1..Len(s) : s[i] \notin WhiteSpace}
    IN  IF keep = {} THEN <<>>
        ELSE SubSeq(s, CHOOSE i \in keep : \A j \in keep : i <= j,
                       CHOOSE i \in keep : \A j \in keep : j <= i)

\* a sequence of characters as one string
RECURSIVE Join(_)
Join(s) == IF s = <<>> THEN "" ELSE Head(s) \o Join(Tail(s))

\* the decimal digits of a natural number
RECURSIVE Itoa(_)
Itoa(n) ==
    IF n < Len(Digits) THEN <<Digits[n + 1]>>
    ELSE Itoa(n \div Len(Digits)) \o <<Digits[(n % Len(Digits)) + 1]>>

----------------------------------------------------------------------------
(* Endpoint constants *)

MainEndpoint == <<>>
DeleteOrganizationsEndpoint == <<"o", "r", "g", "a", "n", "i", "z", "a", "t", "i", "o", "n", "s", "/", "{", "o", "r", "g", "a", "n", "i", "z", "a", "t", "i", "o", "n", "s", "}">>  \* "organizations/{organizations}"
DeleteClustersEndpoint == <<"c", "l", "u", "s", "t", "e", "r", "s", "/", "{", "c", "l", "u", "s", "t", "e", "r", "s", "}">>  \* "clusters/{clusters}"
OrganizationsEndpoint == <<"o", "r", "g", "a", "n", "i", "z", "a", "t", "i", "o", "n", "s">>  \* "organizations"
ReportEndpoint == <<"r", "e", "p", "o", "r", "t", "/", "{", "o", "r", "g", "a", "n", "i", "z", "a", "t", "i", "o", "n", "}", "/", "{", "c", "l", "u", "s", "t", "e", "r", "}">>  \* "report/{organization}/{cluster}"
LikeRuleEndpoint == <<"c", "l", "u", "s", "t", "e", "r", "s", "/", "{", "c", "l", "u", "s", "t", "e", "r", "}", "/", "r", "u", "l", "e", "s", "/", "{", "r", "u", "l", "e", "_", "i", "d", "}", "/", "l", "i", "k", "e">>  \* "clusters/{cluster}/rules/{rule_id}/like"
DislikeRuleEndpoint == <<"c", "l", "u", "s", "t", "e", "r", "s", "/", "{", "c", "l", "u", "s", "t", "e", "r", "}", "/", "r", "u", "l", "e", "s", "/", "{", "r", "u", "l", "e", "_", "i", "d", "}", "/", "d", "i", "s", "l", "i", "k", "e">>  \* "clusters/{cluster}/rules/{rule_id}/dislike"
ResetVoteOnRuleEndpoint == <<"c", "l", "u", "s", "t", "e", "r", "s", "/", "{", "c", "l", "u", "s", "t", "e", "r", "}", "/", "r", "u", "l", "e", "s", "/", "{", "r", "u", "l", "e", "_", "i", "d", "}", "/", "r", "e", "s", "e", "t", "_", "v", "o", "t", "e">>  \* "clusters/{cluster}/rules/{rule_id}/reset_vote"
GetVoteOnRuleEndpoint == <<"c", "l", "u", "s", "t", "e", "r", "s", "/", "{", "c", "l", "u", "s", "t", "e", "r", "}", "/", "r", "u", "l", "e", "s", "/", "{", "r", "u", "l", "e", "_", "i", "d", "}", "/", "g", "e", "t", "_", "v", "o", "t", "e">>  \* "clusters/{cluster}/rules/{rule_id}/get_vote"
RuleEndpoint == <<"r", "u", "l", "e", "s", "/", "{", "r", "u", "l", "e", "_", "i", "d", "}">>  \* "rules/{rule_id}"
RuleErrorKeyEndpoint == <<"r", "u", "l", "e", "s", "/", "{", "r", "u", "l", "e", "_", "i", "d", "}", "/", "e", "r", "r", "o", "r", "_", "k", "e", "y", "s", "/", "{", "e", "r", "r", "o", "r", "_", "k", "e", "y", "}">>  \* "rules/{rule_id}/error_keys/{error_key}"
RuleGroupsEndpoint == <<"g", "r", "o", "u", "p", "s">>  \* "groups"
ClustersForOrganizationEndpoint == <<"o", "r", "g", "a", "n", "i", "z", "a", "t", "i", "o", "n", "s", "/", "{", "o", "r", "g", "a", "n", "i", "z", "a", "t", "i", "o", "n", "}", "/", "c", "l", "u", "s", "t", "e", "r", "s">>  \* "organizations/{organization}/clusters"
DisableRuleForClusterEndpoint == <<"c", "l", "u", "s", "t", "e", "r", "s", "/", "{", "c", "l", "u", "s", "t", "e", "r", "}", "/", "r", "u", "l", "e", "s", "/", "{", "r", "u", "l", "e", "_", "i", "d", "}", "/", "d", "i", "s", "a", "b", "l", "e">>  \* "clusters/{cluster}/rules/{rule_id}/disable"
EnableRuleForClusterEndpoint == <<"c", "l", "u", "s", "t", "e", "r", "s", "/", "{", "c", "l", "u", "s", "t", "e", "r", "}", "/", "r", "u", "l", "e", "s", "/", "{", "r", "u", "l", "e", "_", "i", "d", "}", "/", "e", "n", "a", "b", "l", "e">>  \* "clusters/{cluster}/rules/{rule_id}/enable"
MetricsEndpoint == <<"m", "e", "t", "r", "i", "c", "s">>  \* "metrics"

\* the path prefix the profiling handlers are mounted under
PprofPrefix == <<"/", "d", "e", "b", "u", "g", "/", "p", "p", "r", "o", "f", "/">>  \* "/debug/pprof/"

----------------------------------------------------------------------------
(* MakeURLToEndpoint *)

\* an argument (interface{}): a string or an int
StringArg(s) == [type |-> "string", str |-> s, int |-> 0]
IntArg(n) == [type |-> "int", str |-> <<>>, int |-> n]

\* the length of the match of \{[a-zA-Z_0-9]+\} at the start of s, 0 with none
PlaceholderLen(s) ==
    IF s = <<>> \/ Head(s) # "{" THEN 0
    ELSE LET close == IndexAny(s, {"}"})
         IN  IF close >= 3 /\ \A k \in 2..(close - 1) : s[k] \in WordChars
             THEN close ELSE 0

\* regexp.ReplaceAllString for that expression: the matches, leftmost first
\* and not overlapping, are replaced by repl
RECURSIVE ReplaceAllString(_, _)
ReplaceAllString(src, repl) ==
    IF src = <<>> THEN <<>>
    ELSE LET n == PlaceholderLen(src)
         IN  IF n > 0 THEN repl \o ReplaceAllString(From(src, n + 1), repl)
             ELSE <<Head(src)>> \o ReplaceAllString(Tail(src), repl)

\* the text %v gives an argument
ValueText(arg) == IF arg.type = "string" THEN arg.str ELSE Itoa(arg.int)

\* the type name fmt gives in its error markers
TypeName(arg) == IF arg.type = "string" THEN <<"s", "t", "r", "i", "n", "g">> ELSE <<"i", "n", "t">>

\* fmt: one argument under one verb; a verb the type does not take gives the
\* marker %!verb(type=value)
printArg(arg, verb) ==
    IF \/ verb = "v"
       \/ verb = "s" /\ arg.type = "string"
       \/ verb = "d" /\ arg.type = "int"
    THEN ValueText(arg)
    ELSE <<"%", "!">> \o <<verb>> \o <<"(">> \o TypeName(arg) \o <<"=">> \o ValueText(arg) \o <<")">>

\* fmt: the arguments left over, as listed in the marker %!(EXTRA ...)
RECURSIVE ExtraArgs(_, _)
ExtraArgs(a, argNum) ==
    TypeName(a[argNum]) \o <<"=">> \o ValueText(a[argNum]) \o
    (IF argNum < Len(a) THEN <<",", " ">> \o ExtraArgs(a, argNum + 1) ELSE <<>>)

\* fmt.Sprintf (doPrintf) from the argument argNum on.  The formats this model
\* hands it hold no flag, width, precision or argument index, and no verb but
\* those printArg knows that is good for a string or an int.
RECURSIVE doPrintf(_, _, _)
doPrintf(format, a, argNum) ==
    IF format = <<>>
    THEN IF argNum <= Len(a) THEN <<"%", "!", "(", "E", "X", "T", "R", "A", " ">> \o ExtraArgs(a, argNum) \o <<")">> ELSE <<>>
    ELSE IF Head(format) # "%"
    THEN <<Head(format)>> \o doPrintf(Tail(format), a, argNum)
    ELSE IF Len(format) = 1
    THEN <<"%", "!", "(", "N", "O", "V", "E", "R", "B", ")">> \o doPrintf(<<>>, a, argNum)
    ELSE LET verb == format[2]
             rest == From(format, 3)
         IN  IF verb = "%" THEN <<"%">> \o doPrintf(rest, a, argNum)
             ELSE IF argNum > Len(a)
             THEN <<"%", "!">> \o <<verb>> \o <<"(", "M", "I", "S", "S", "I", "N", "G", ")">> \o doPrintf(rest, a, argNum)
             ELSE printArg(a[argNum], verb) \o doPrintf(rest, a, argNum + 1)

Sprintf(format, a) == doPrintf(format, a, 1)

\* (mutant) the placeholders become %s, which only a string takes
MakeURLToEndpointWithS(apiPrefix, endpoint, args) ==
    apiPrefix \o Sprintf(ReplaceAllString(endpoint, <<"%", "s">>), args)

MakeURLToEndpoint(apiPrefix, endpoint, args) ==
    apiPrefix \o Sprintf(ReplaceAllString(endpoint, <<"%", "v">>), args)

----------------------------------------------------------------------------
(* Router: registration *)

HMain == "mainEndpoint"
HAggregator == "proxyTo(aggregatorEndpoint)"
HContent == "proxyTo(contentServiceEndpoint)"
HMetrics == "promhttp.Handler"
HSpecFile == "serveAPISpecFile"
HPprof == "http.DefaultServeMux"
\* the router's own answers
NotFound == "404 page not found"
MethodNotAllowed == "405 method not allowed"

HTTPMethods == {"GET", "PUT", "POST", "DELETE", "OPTIONS"}

\* a path or a path template as the router holds it: its segments, the
\* strings between its slashes ("/api/v1/" is <<"", "api", "v1", "">>)
RECURSIVE SplitPath(_)
SplitPath(p) ==
    LET i == IndexAny(p, {"/"})
    IN  IF i = 0 THEN <<Join(p)>>
        ELSE <<Join(SubSeq(p, 1, i - 1))>> \o SplitPath(From(p, i + 1))

\* router.HandleFunc(path, handler).Methods(methods...)
HandleFunc(path, handler, methods) ==
    [path |-> SplitPath(path), prefix |-> FALSE, methods |-> methods, handler |-> handler]

\* router.PathPrefix(path).Handler(handler): every method, every path under it
PathPrefix(path, handler) ==
    [path |-> SplitPath(path), prefix |-> TRUE, methods |-> HTTPMethods, handler |-> handler]

\* filepath.Base: the last element of the path, trailing slashes dropped;
\* "." for the empty path and "/" for one of slashes only
Base(path) ==
    IF path = <<>> THEN <<".">>
    ELSE LET end == LastIndexNot(path, {"/"})
             stripped == SubSeq(path, 1, end)
             slashes == {i \in 1..end : stripped[i] = "/"}
             start == IF slashes = {} THEN 1
                      ELSE 1 + CHOOSE i \in slashes : \A j \in slashes : j <= i
         IN  IF end = 0 THEN <<"/">> ELSE SubSeq(stripped, start, end)

addDebugEndpointsToRouter(router, cfg) ==
    LET apiPrefix == cfg.APIPrefix
    IN  router \o
        << HandleFunc(apiPrefix \o OrganizationsEndpoint, HAggregator, {"GET"}),
           HandleFunc(apiPrefix \o DeleteOrganizationsEndpoint, HAggregator, {"DELETE"}),
           HandleFunc(apiPrefix \o DeleteClustersEndpoint, HAggregator, {"DELETE"}),
           HandleFunc(apiPrefix \o GetVoteOnRuleEndpoint, HAggregator, {"GET"}),
           HandleFunc(apiPrefix \o RuleEndpoint, HAggregator, {"POST"}),
           HandleFunc(apiPrefix \o RuleErrorKeyEndpoint, HAggregator, {"POST"}),
           HandleFunc(apiPrefix \o RuleEndpoint, HAggregator, {"DELETE"}),
           HandleFunc(apiPrefix \o RuleErrorKeyEndpoint, HAggregator, {"DELETE"}),
           PathPrefix(PprofPrefix, HPprof) >>

\* (mutant) the special endpoints are registered whatever the mode
DebugRoutesUngated(router, cfg) == addDebugEndpointsToRouter(router, cfg)

\* addEndpointsToRouter: the special endpoints, in debug mode only
DebugRoutes(router, cfg) ==
    IF cfg.Debug THEN addDebugEndpointsToRouter(router, cfg) ELSE router

\* addEndpointsToRouter: the common REST API endpoints, the metrics and the
\* OpenAPI specification
CommonRoutes(router, cfg) ==
    LET apiPrefix == cfg.APIPrefix
        openAPIURL == apiPrefix \o Base(cfg.APISpecFile)
    IN  router \o
        << HandleFunc(apiPrefix \o MainEndpoint, HMain, {"GET"}),
           HandleFunc(apiPrefix \o ReportEndpoint, HAggregator, {"GET", "OPTIONS"}),
           HandleFunc(apiPrefix \o LikeRuleEndpoint, HAggregator, {"PUT", "OPTIONS"}),
           HandleFunc(apiPrefix \o DislikeRuleEndpoint, HAggregator, {"PUT", "OPTIONS"}),
           HandleFunc(apiPrefix \o ResetVoteOnRuleEndpoint, HAggregator, {"PUT", "OPTIONS"}),
           HandleFunc(apiPrefix \o ClustersForOrganizationEndpoint, HAggregator, {"GET"}),
           HandleFunc(apiPrefix \o DisableRuleForClusterEndpoint, HAggregator, {"PUT", "OPTIONS"}),
           HandleFunc(apiPrefix \o EnableRuleForClusterEndpoint, HAggregator, {"PUT", "OPTIONS"}),
           HandleFunc(apiPrefix \o RuleGroupsEndpoint, HContent, {"GET", "OPTIONS"}),
           HandleFunc(apiPrefix \o RuleErrorKeyEndpoint, HAggregator, {"GET"}),
           HandleFunc(apiPrefix \o MetricsEndpoint, HMetrics, {"GET"}),
           HandleFunc(openAPIURL, HSpecFile, {"GET"}) >>

addEndpointsToRouter(router, cfg) ==
    CommonRoutes(DebugRoutes(router, cfg), cfg)

----------------------------------------------------------------------------
(* Router: resolution of a request *)

\* the placeholders of a template
RECURSIVE PlaceholdersOf(_)
PlaceholdersOf(t) ==
    IF t = <<>> THEN {}
    ELSE LET n == PlaceholderLen(t)
         IN  IF n > 0 THEN {SubSeq(t, 1, n)} \cup PlaceholdersOf(From(t, n + 1))
             ELSE PlaceholdersOf(Tail(t))

EndpointTemplates ==
    {MainEndpoint, DeleteOrganizationsEndpoint, DeleteClustersEndpoint,
     OrganizationsEndpoint, ReportEndpoint, LikeRuleEndpoint, DislikeRuleEndpoint,
     ResetVoteOnRuleEndpoint, GetVoteOnRuleEndpoint, RuleEndpoint,
     RuleErrorKeyEndpoint, RuleGroupsEndpoint, ClustersForOrganizationEndpoint,
     DisableRuleForClusterEndpoint, EnableRuleForClusterEndpoint, MetricsEndpoint}

\* the segments that are path variables: in every template registered a
\* variable is a whole segment
PathVariables == {Join(v) : v \in UNION {PlaceholdersOf(t) : t \in EndpointTemplates}}

\* one segment of a template against one of a request path: a variable
\* stands for one or more characters (none a slash), a literal for itself
SegmentMatches(t, s) ==
    IF t \in PathVariables THEN s # "" ELSE t = s

\* a path template against a request path; a prefix template (one that ends
\* with a slash) need only match the start of the path
TemplateMatches(t, p, prefix) ==
    IF prefix
    THEN /\ Len(p) >= Len(t)
         /\ \A i \in 1..(Len(t) - 1) : SegmentMatches(t[i], p[i])
         /\ t[Len(t)] = "" \/ SegmentMatches(t[Len(t)], p[Len(t)])
    ELSE /\ Len(p) = Len(t)
         /\ \A i \in 1..Len(t) : SegmentMatches(t[i], p[i])

PathMatches(route, path) == TemplateMatches(route.path, path, route.prefix)

RouteMatches(route, req) ==
    /\ PathMatches(route, req.path)
    /\ req.method \in route.methods

\* the first route, in registration order, whose path and method both match
\* handles the request; with none, the answer is 405 when the path of some
\* route matched and 404 otherwise
Resolve(router, req) ==
    LET hits == {i \in 1..Len(router) : RouteMatches(router[i], req)}
    IN  IF hits # {}
        THEN router[CHOOSE i \in hits : \A j \in hits : i <= j].handler
        ELSE IF \E i \in 1..Len(router) : PathMatches(router[i], req.path)
             THEN MethodNotAllowed
             ELSE NotFound

----------------------------------------------------------------------------
(* States of the parts a specification leaves alone *)

NoConfig == [APIPrefix |-> <<>>, Debug |-> FALSE, APISpecFile |-> <<>>]
NoRequest == [method |-> "", path |-> <<>>]
NoFlags == [err |-> "", showHelp |-> FALSE, showVersion |-> FALSE, args |-> <<>>]
NoCall == [apiPrefix |-> <<>>, endpoint |-> <<>>, args |-> <<>>]
Running == <<>>
Exited(status) == <<status>>

RouterIdle ==
    /\ srvState = "idle"
    /\ srvConfig = NoConfig
    /\ routes = <<>>
    /\ request = NoRequest
    /\ response = ""

ProcessIdle ==
    /\ pc = "idle"
    /\ osArgs = <<>>
    /\ flags = NoFlags
    /\ flagsParsed = FALSE
    /\ configLoaded = FALSE
    /\ command = <<>>
    /\ calls = <<>>
    /\ errors = {}
    /\ exitStatus = Running
    /\ serverInstance = FALSE

URLIdle ==
    /\ urlState = "idle"
    /\ urlCall = NoCall
    /\ urlResult = <<>>

RECURSIVE SeqsUpTo(_, _)
SeqsUpTo(S, n) ==
    IF n = 0 THEN {<<>>}
    ELSE LET shorter == SeqsUpTo(S, n - 1)
         IN  shorter \cup {Append(s, x) : s \in shorter, x \in S}

----------------------------------------------------------------------------
(* HTTP server: configuration, start, request handling *)

\* values of Config.APIPrefix tried
APIPrefixes == { <<"/", "a", "p", "i", "/", "v", "1", "/">>, <<"/">>, <<"/", "a", "p", "i", "/", "v", "1">>, PprofPrefix }

\* values of Config.APISpecFile tried
APISpecFiles ==
    { <<"o", "p", "e", "n", "a", "p", "i", ".", "j", "s", "o", "n">>, <<"s", "e", "r", "v", "e", "r", "/", "a", "p", "i", "/", "o", "p", "e", "n", "a", "p", "i", ".", "j", "s", "o", "n">>, <<"a", "p", "i", "/", "m", "e", "t", "r", "i", "c", "s">>, <<"g", "r", "o", "u", "p", "s">>,
      <<"/", "e", "t", "c", "/", "o", "r", "g", "a", "n", "i", "z", "a", "t", "i", "o", "n", "s", "/">>, <<>> }

Configs == [APIPrefix : APIPrefixes, Debug : BOOLEAN, APISpecFile : APISpecFiles]

AllVals == << <<"v", "1">>, <<"v", "2">>, <<"v", "3">>, <<"v", "4">> >>
Vals == {AllVals[i] : i \in 1..MaxVals}

\* the number of placeholders of a template
RECURSIVE CountPlaceholders(_)
CountPlaceholders(t) ==
    IF t = <<>> THEN 0
    ELSE LET n == PlaceholderLen(t)
         IN  IF n > 0 THEN 1 + CountPlaceholders(From(t, n + 1))
             ELSE CountPlaceholders(Tail(t))

\* the URLs of an endpoint, its variables taking the values of Vals
URLsOf(apiPrefix, endpoint) ==
    {MakeURLToEndpoint(apiPrefix, endpoint, a) :
        a \in [1..CountPlaceholders(endpoint) -> {StringArg(v) : v \in Vals}]}

\* the requests tried against a server configured with cfg
Requests(cfg) ==
    LET api == UNION {URLsOf(cfg.APIPrefix, t) :
                        t \in EndpointTemplates \cup {Base(cfg.APISpecFile)}}
        other == {PprofPrefix, PprofPrefix \o <<"h", "e", "a", "p">>, <<"/", "d", "e", "b", "u", "g", "/", "p", "p", "r", "o", "f">>, <<"/", "n", "o", "s", "u", "c", "h">>}
    IN  [method : HTTPMethods, url : api \cup other]

\* HTTPServer.Start: the router is initialised with the route table, then the
\* server listens, which succeeds or fails
Start ==
    /\ srvState = "new"
    /\ routes' = addEndpointsToRouter(<<>>, srvConfig)
    /\ \E listening \in BOOLEAN :
         srvState' = IF listening THEN "serving" ELSE "failed"
    /\ UNCHANGED <<srvConfig, request, response, cliVars, urlVars>>

\* the router's ServeHTTP for one request: requests are independent of each
\* other, so one is followed at a time
ServeHTTP ==
    /\ srvState = "serving"
    /\ request = NoRequest
    /\ \E req \in Requests(srvConfig) :
         /\ request' = [method |-> req.method, path |-> SplitPath(req.url)]
         /\ response' = Resolve(routes, request')
    /\ UNCHANGED <<srvState, srvConfig, routes, cliVars, urlVars>>

\* the response is written and the request is over
RequestDone ==
    /\ srvState = "serving"
    /\ request # NoRequest
    /\ request' = NoRequest
    /\ response' = ""
    /\ UNCHANGED <<srvState, srvConfig, routes, cliVars, urlVars>>

InitRouter ==
    /\ srvState = "new"
    /\ srvConfig \in Configs
    /\ routes = <<>>
    /\ request = NoRequest
    /\ response = ""
    /\ ProcessIdle
    /\ URLIdle

NextRouter == Start \/ ServeHTTP \/ RequestDone

SpecRouter == InitRouter /\ [][NextRouter]_vars

----------------------------------------------------------------------------
(* A call of MakeURLToEndpoint *)

\* what the templates tried are made of: a placeholder or one character
Pieces == { <<"{", "a", "}">>, <<"a">>, <<"/">>, <<"%">>, <<"{">>, <<"}">> }

RECURSIVE Concat(_)
Concat(ss) == IF ss = <<>> THEN <<>> ELSE Head(ss) \o Concat(Tail(ss))

URLTemplates ==
    {Concat(ps) : ps \in SeqsUpTo(Pieces, MaxPieces)} \cup {ReportEndpoint, LikeRuleEndpoint}

URLArgValues == { StringArg(<<"c", "1">>), StringArg(<<"{", "b", "}">>), IntArg(42) }

URLPrefixes == { <<"/", "a", "p", "i", "/", "v", "1", "/">>, <<"/", "a", "p", "i", "/", "{", "v", "e", "r", "s", "i", "o", "n", "}", "/">> }

CallMakeURLToEndpoint ==
    /\ urlState = "idle"
    /\ \E apiPrefix \in URLPrefixes, endpoint \in URLTemplates,
          args \in SeqsUpTo(URLArgValues, MaxURLArgs) :
         /\ urlCall' = [apiPrefix |-> apiPrefix, endpoint |-> endpoint, args |-> args]
         /\ urlResult' = MakeURLToEndpoint(apiPrefix, endpoint, args)
    /\ urlState' = "returned"
    /\ UNCHANGED <<routerVars, cliVars>>

\* the caller is done with the result
URLUsed ==
    /\ urlState = "returned"
    /\ urlState' = "idle"
    /\ urlCall' = NoCall
    /\ urlResult' = <<>>
    /\ UNCHANGED <<routerVars, cliVars>>

InitURL == URLIdle /\ RouterIdle /\ ProcessIdle

NextURL == CallMakeURLToEndpoint \/ URLUsed

SpecURL == InitURL /\ [][NextURL]_vars

----------------------------------------------------------------------------
(* Command line: flags, commands, help *)

CmdStartService == <<"s", "t", "a", "r", "t", "-", "s", "e", "r", "v", "i", "c", "e">>  \* "start-service"
CmdPrintVersion == <<"p", "r", "i", "n", "t", "-", "v", "e", "r", "s", "i", "o", "n">>  \* "print-version"
CmdPrintHelp == <<"p", "r", "i", "n", "t", "-", "h", "e", "l", "p">>  \* "print-help"
CmdPrintConfig == <<"p", "r", "i", "n", "t", "-", "c", "o", "n", "f", "i", "g">>  \* "print-config"
CmdPrintEnv == <<"p", "r", "i", "n", "t", "-", "e", "n", "v">>  \* "print-env"
CmdPrintVersionInfo == <<"p", "r", "i", "n", "t", "-", "v", "e", "r", "s", "i", "o", "n", "-", "i", "n", "f", "o">>  \* "print-version-info"
CmdHelp == <<"h", "e", "l", "p">>  \* "help"
CmdBogus == <<"b", "o", "g", "u", "s">>  \* "bogus"
FlagHelp == <<"h", "e", "l", "p">>  \* "help"
FlagVersion == <<"v", "e", "r", "s", "i", "o", "n">>  \* "version"

\* the exit statuses
ExitStatusOK == 0
ExitStatusServerError == 1
\* the status the Go runtime exits with after an unrecovered panic
PanicExitStatus == 2
\* the status flag.Parse exits with on an error (flag.ExitOnError)
FlagErrorExitStatus == 2

\* helpMessageTemplate: the commands the help message lists and what it says
\* each does; NoCommand is the "<EMPTY>" row
NoCommand == <<"<", "E", "M", "P", "T", "Y", ">">>  \* "<EMPTY>"
helpMessageTemplate ==
    { [command |-> NoCommand, does |-> "starts aggregator"],
      [command |-> CmdStartService, does |-> "starts aggregator"],
      [command |-> CmdHelp, does |-> "prints help"],
      [command |-> CmdPrintHelp, does |-> "prints help"],
      [command |-> CmdPrintConfig, does |-> "prints current configuration"],
      [command |-> CmdPrintEnv, does |-> "prints env variables"],
      [command |-> CmdPrintVersionInfo, does |-> "prints version info"] }

\* the spellings strconv.ParseBool takes
BoolTrue == { <<"1">>, <<"t">>, <<"T">>, <<"t", "r", "u", "e">>, <<"T", "R", "U", "E">>, <<"T", "r", "u", "e">> }
BoolFalse == { <<"0">>, <<"f">>, <<"F">>, <<"f", "a", "l", "s", "e">>, <<"F", "A", "L", "S", "E">>, <<"F", "a", "l", "s", "e">> }

\* the flags main defines, both boolean
DefinedFlags == {FlagHelp, FlagVersion}

\* flag.Parse on the arguments after the program name.  Flags are read up to
\* the first argument that is not one (or up to a "--"); the rest are the
\* positional arguments.  err is "" (parsed), "help" (-h, which main does not
\* define: the usage is printed) or "error" (bad syntax, a flag not defined, a
\* bad value).
RECURSIVE ParseFlags(_, _)
ParseFlags(args, set) ==
    IF args = <<>> THEN [set EXCEPT !.args = <<>>]
    ELSE LET s == Head(args) IN
    IF Len(s) < 2 \/ s[1] # "-" THEN [set EXCEPT !.args = args]
    ELSE IF s = <<"-", "-">> THEN [set EXCEPT !.args = Tail(args)]
    ELSE LET numMinuses == IF s[2] = "-" THEN 2 ELSE 1
             full == From(s, numMinuses + 1)
         IN
    IF full = <<>> \/ full[1] = "-" \/ full[1] = "="
    THEN [set EXCEPT !.err = "error", !.args = Tail(args)]
    ELSE LET eq == IndexAny(Tail(full), {"="})
             hasValue == eq > 0
             name == IF hasValue THEN SubSeq(full, 1, eq) ELSE full
             value == From(full, eq + 2)
         IN
    IF name \notin DefinedFlags
    THEN [set EXCEPT !.err = IF name \in {<<"h", "e", "l", "p">>, <<"h">>} THEN "help" ELSE "error",
                     !.args = Tail(args)]
    ELSE IF hasValue /\ value \notin BoolTrue \cup BoolFalse
    THEN [set EXCEPT !.err = "error", !.args = Tail(args)]
    ELSE LET on == ~hasValue \/ value \in BoolTrue
         IN  ParseFlags(Tail(args),
                        IF name = FlagHelp THEN [set EXCEPT !.showHelp = on]
                        ELSE [set EXCEPT !.showVersion = on])

\* (mutant) the argument is lower-cased and not trimmed
CommandOfUntrimmed(args) ==
    IF Len(args) >= 1 THEN ToLower(args[1]) ELSE CmdStartService

\* main: the command is start-service unless a positional argument names one
CommandOf(args) ==
    IF Len(args) >= 1 THEN ToLower(TrimSpace(args[1])) ELSE CmdStartService

\* printConfig: the status it returns
printConfig(marshalFailed) == IF marshalFailed THEN 1 ELSE ExitStatusOK

\* handleCommand: the function it calls for the command ("" for none), and
\* the status it returns when that function returned status
handleCommand(cmd, status) ==
    IF cmd = CmdStartService THEN [call |-> "startServer", status |-> status]
    ELSE IF cmd = CmdPrintVersion THEN [call |-> "printVersionInfo", status |-> ExitStatusOK]
    ELSE IF cmd = CmdPrintHelp THEN [call |-> "printHelp", status |-> ExitStatusOK]
    ELSE IF cmd = CmdPrintConfig THEN [call |-> "printConfig", status |-> ExitStatusOK]
    ELSE IF cmd = CmdPrintEnv THEN [call |-> "printEnv", status |-> ExitStatusOK]
    ELSE [call |-> "", status |-> ExitStatusOK]

----------------------------------------------------------------------------
(* Command line: the process *)

\* (mutant) the error of conf.LoadConfiguration is dropped
LoadConfigurationErrorIgnored ==
    /\ pc = "main"
    /\ \E failed \in BOOLEAN :
         /\ configLoaded' = ~failed
         /\ errors' = IF failed THEN errors \cup {"configuration load"} ELSE errors
    /\ pc' = "flag.Parse"
    /\ UNCHANGED <<osArgs, flags, flagsParsed, command, calls, exitStatus, serverInstance>>
    /\ UNCHANGED <<routerVars, urlVars>>

\* main: conf.LoadConfiguration; a failure panics
LoadConfiguration ==
    /\ pc = "main"
    /\ \E failed \in BOOLEAN :
         IF failed
         THEN /\ pc' = "exit"
              /\ exitStatus' = Exited(PanicExitStatus)
              /\ errors' = errors \cup {"configuration load"}
              /\ UNCHANGED configLoaded
         ELSE /\ pc' = "flag.Parse"
              /\ configLoaded' = TRUE
              /\ UNCHANGED <<exitStatus, errors>>
    /\ UNCHANGED <<osArgs, flags, flagsParsed, command, calls, serverInstance>>
    /\ UNCHANGED <<routerVars, urlVars>>

\* main: flag.Parse.  An error ends the process with status 2; -h prints the
\* usage and ends it with status 0 or, before Go 1.15, 2.
FlagParse ==
    /\ pc = "flag.Parse"
    /\ LET parsed == ParseFlags(osArgs, NoFlags) IN
         /\ flags' = parsed
         /\ flagsParsed' = TRUE
         /\ IF parsed.err = ""
            THEN /\ pc' = "flags"
                 /\ UNCHANGED <<exitStatus, errors, calls>>
            ELSE /\ pc' = "exit"
                 /\ calls' = Append(calls, "flag.Usage")
                 /\ errors' = errors \cup {"flag " \o parsed.err}
                 /\ \E status \in IF parsed.err = "help"
                                  THEN {ExitStatusOK, FlagErrorExitStatus}
                                  ELSE {FlagErrorExitStatus} :
                      exitStatus' = Exited(status)
    /\ UNCHANGED <<osArgs, configLoaded, command, serverInstance>>
    /\ UNCHANGED <<routerVars, urlVars>>

\* main: if showHelp
ShowHelp ==
    /\ pc = "flags"
    /\ flags.showHelp
    /\ calls' = Append(calls, "printHelp")
    /\ pc' = "exit"
    /\ exitStatus' = Exited(ExitStatusOK)
    /\ UNCHANGED <<osArgs, flags, flagsParsed, configLoaded, command, errors, serverInstance>>
    /\ UNCHANGED <<routerVars, urlVars>>

\* main: if showVersion
ShowVersion ==
    /\ pc = "flags"
    /\ ~flags.showHelp
    /\ flags.showVersion
    /\ calls' = Append(calls, "printVersionInfo")
    /\ pc' = "exit"
    /\ exitStatus' = Exited(ExitStatusOK)
    /\ UNCHANGED <<osArgs, flags, flagsParsed, configLoaded, command, errors, serverInstance>>
    /\ UNCHANGED <<routerVars, urlVars>>

\* main: command := ...
SelectCommand ==
    /\ pc = "flags"
    /\ ~flags.showHelp
    /\ ~flags.showVersion
    /\ command' = CommandOf(flags.args)
    /\ pc' = "handleCommand"
    /\ UNCHANGED <<osArgs, flags, flagsParsed, configLoaded, calls, exitStatus, errors,
                   serverInstance>>
    /\ UNCHANGED <<routerVars, urlVars>>

\* os.Exit(handleCommand(command)), for every command but start-service
HandleCommand ==
    /\ pc = "handleCommand"
    /\ handleCommand(command, ExitStatusOK).call # "startServer"
    /\ \E marshalFailed \in BOOLEAN :
         LET call == handleCommand(command, ExitStatusOK).call
             returned == IF call = "printConfig" THEN printConfig(marshalFailed)
                         ELSE ExitStatusOK
         IN  /\ marshalFailed => call = "printConfig"
             /\ calls' = IF call = "" THEN calls ELSE Append(calls, call)
             /\ errors' = IF marshalFailed THEN errors \cup {"configuration marshal"}
                          ELSE errors
             /\ exitStatus' = Exited(handleCommand(command, returned).status)
    /\ pc' = "exit"
    /\ UNCHANGED <<osArgs, flags, flagsParsed, configLoaded, command, serverInstance>>
    /\ UNCHANGED <<routerVars, urlVars>>

\* handleCommand, start-service: startServer creates the server
ServerNew ==
    /\ pc = "handleCommand"
    /\ handleCommand(command, ExitStatusOK).call = "startServer"
    /\ serverInstance' = TRUE
    /\ calls' = Append(calls, "server.New")
    /\ pc' = "serverInstance.Start"
    /\ UNCHANGED <<osArgs, flags, flagsParsed, configLoaded, command, exitStatus, errors>>
    /\ UNCHANGED <<routerVars, urlVars>>

\* startServer: serverInstance.Start returns, with an error or without one;
\* the status startServer makes of it is the status of the process
ServerStart ==
    /\ pc = "serverInstance.Start"
    /\ calls' = Append(calls, "server.Start")
    /\ \E failed \in BOOLEAN :
         LET status == IF failed THEN ExitStatusServerError ELSE ExitStatusOK
         IN  /\ exitStatus' = Exited(handleCommand(command, status).status)
             /\ errors' = IF failed THEN errors \cup {"server start"} ELSE errors
    /\ pc' = "exit"
    /\ UNCHANGED <<osArgs, flags, flagsParsed, configLoaded, command, serverInstance>>
    /\ UNCHANGED <<routerVars, urlVars>>

\* ---- the command lines tried ----

\* unicode.ToUpper on one character
ToUpperChar(c) ==
    LET i == IndexAny(LowerCaseLetters, {c})
    IN  IF i > 0 THEN UpperCaseLetters[i] ELSE c

\* a word in capitals between white space
Decorated(w) == <<" ", "\t">> \o [i \in 1..Len(w) |-> ToUpperChar(w[i])] \o <<"\n", " ">>

CommandWords ==
    {CmdStartService, CmdPrintVersion, CmdPrintHelp, CmdPrintConfig, CmdPrintEnv,
     CmdHelp, CmdPrintVersionInfo, CmdBogus, <<>>}

PositionalArgs == CommandWords \cup {Decorated(w) : w \in CommandWords}

FlagArgs ==
    { <<"-", "h", "e", "l", "p">>, <<"-", "-", "v", "e", "r", "s", "i", "o", "n">>, <<"-", "h">>, <<"-", "b", "o", "g", "u", "s">>, <<"-", "-">>, <<"-", "v", "e", "r", "s", "i", "o", "n", "=", "f", "a", "l", "s", "e">>, <<"-", "h", "e", "l", "p", "=", "x">> }

ArgLists == SeqsUpTo(FlagArgs \cup PositionalArgs, MaxOsArgs)

Init ==
    /\ pc = "main"
    /\ osArgs \in ArgLists
    /\ flags = NoFlags
    /\ flagsParsed = FALSE
    /\ configLoaded = FALSE
    /\ command = <<>>
    /\ calls = <<>>
    /\ errors = {}
    /\ exitStatus = Running
    /\ serverInstance = FALSE
    /\ RouterIdle
    /\ URLIdle

Next ==
    \/ LoadConfiguration
    \/ FlagParse
    \/ ShowHelp
    \/ ShowVersion
    \/ SelectCommand
    \/ HandleCommand
    \/ ServerNew
    \/ ServerStart

Spec == Init /\ [][Next]_vars

----------------------------------------------------------------------------
(* Properties of the route table *)

\* a request has been resolved and not yet answered
Served == srvState = "serving" /\ request # NoRequest

\* the (method, path) pairs only addDebugEndpointsToRouter registers
DebugOnlyPairs ==
    { <<"GET", OrganizationsEndpoint>>, <<"DELETE", DeleteOrganizationsEndpoint>>,
      <<"DELETE", DeleteClustersEndpoint>>, <<"GET", GetVoteOnRuleEndpoint>>,
      <<"POST", RuleEndpoint>>, <<"DELETE", RuleEndpoint>>,
      <<"POST", RuleErrorKeyEndpoint>>, <<"DELETE", RuleErrorKeyEndpoint>> }

IsDebugAPIRequest(req, cfg) ==
    \E p \in DebugOnlyPairs :
        req.method = p[1] /\ TemplateMatches(SplitPath(cfg.APIPrefix \o p[2]), req.path, FALSE)

IsPprofRequest(req) == TemplateMatches(SplitPath(PprofPrefix), req.path, TRUE)

IsDebugOnlyRequest(req, cfg) == IsDebugAPIRequest(req, cfg) \/ IsPprofRequest(req)

IsRuleErrorKeyWrite(req, cfg) ==
    /\ req.method \in {"POST", "DELETE"}
    /\ TemplateMatches(SplitPath(cfg.APIPrefix \o RuleErrorKeyEndpoint), req.path, FALSE)

\* the path of the request is the path of some common route
KnownToCommonRoutes(req, cfg) ==
    \E i \in 1..Len(CommonRoutes(<<>>, cfg)) :
        PathMatches(CommonRoutes(<<>>, cfg)[i], req.path)

\* two routes registered for the same path and a same method
HasDuplicates(router) ==
    \E i, j \in 1..Len(router) :
        /\ i < j
        /\ ~router[i].prefix /\ ~router[j].prefix
        /\ router[i].path = router[j].path
        /\ router[i].methods \cap router[j].methods # {}

\* C1, as claimed: a debug-only request (one of the eight debug API pairs, or
\* anything under /debug/pprof/) yields not-found when Debug is false and is
\* dispatched to the aggregator proxy when Debug is true.
C1_DebugGating ==
    Served /\ IsDebugOnlyRequest(request, srvConfig) =>
        response = IF srvConfig.Debug THEN HAggregator ELSE NotFound

\* C1, amended: with Debug false a debug-only request is never dispatched to
\* the profiling handlers and yields not-found exactly when its path is not
\* also the path of a common route; POST and DELETE on
\* rules/{rule_id}/error_keys/{error_key} share the path of the common GET
\* route and yield method-not-allowed.  With Debug true the eight debug API
\* pairs are dispatched to the aggregator proxy and every other request under
\* /debug/pprof/ to http.DefaultServeMux.
C1_DebugGatingAmended ==
    Served /\ IsDebugOnlyRequest(request, srvConfig) =>
        IF srvConfig.Debug
        THEN response = IF IsDebugAPIRequest(request, srvConfig) THEN HAggregator
                        ELSE HPprof
        ELSE /\ response # HPprof
             /\ (response = NotFound) <=> ~KnownToCommonRoutes(request, srvConfig)
             /\ IsRuleErrorKeyWrite(request, srvConfig) => response = MethodNotAllowed

\* C1, witness: without debug mode, DELETE organizations/v1 was not found
C1_Witness ==
    /\ Served
    /\ ~srvConfig.Debug
    /\ request = [method |-> "DELETE",
                  path |-> SplitPath(srvConfig.APIPrefix \o <<"o", "r", "g", "a", "n", "i", "z", "a", "t", "i", "o", "n", "s", "/", "v", "1">>)]
    /\ response = NotFound

\* C2: whatever the debug flag, a request that a row of the common route
\* table matches (method and path) is dispatched to the handler of that row.
C2_StandardRoutesResolve ==
    Served =>
        \A i \in 1..Len(CommonRoutes(<<>>, srvConfig)) :
            RouteMatches(CommonRoutes(<<>>, srvConfig)[i], request) =>
                response = CommonRoutes(<<>>, srvConfig)[i].handler

\* C3: in the table addEndpointsToRouter built, no two routes share the pair
\* (API prefix + path template, method).
C3_RouteTableUnique ==
    srvState \in {"serving", "failed"} => ~HasDuplicates(routes)

\* C4: with a configuration that makes two routes share (method, path), the
\* server never reaches the serving state.
C4_DuplicateRoutesRefuseStart ==
    HasDuplicates(addEndpointsToRouter(<<>>, srvConfig)) => srvState # "serving"

----------------------------------------------------------------------------
(* Properties of MakeURLToEndpoint *)

Returned == urlState = "returned"

ArityMatches == Len(urlCall.args) = CountPlaceholders(urlCall.endpoint)

\* the template with its i-th placeholder replaced by the text of the i-th
\* argument, from the placeholder number i on
RECURSIVE Substituted(_, _, _)
Substituted(t, args, i) ==
    IF t = <<>> THEN <<>>
    ELSE LET n == PlaceholderLen(t)
         IN  IF n > 0 THEN ValueText(args[i]) \o Substituted(From(t, n + 1), args, i + 1)
             ELSE <<Head(t)>> \o Substituted(Tail(t), args, i)

HasPlaceholder(s) == \E i \in 1..Len(s) : PlaceholderLen(From(s, i)) > 0

NoBrace(s) == Range(s) \cap {"{", "}"} = {}

\* C5, as claimed, for every template: with as many arguments as
\* placeholders, the result is the prefix followed by the template with the
\* i-th placeholder replaced by the text of the i-th argument, all other text
\* unchanged.
C5_Substitution ==
    Returned /\ ArityMatches =>
        urlResult = urlCall.apiPrefix \o Substituted(urlCall.endpoint, urlCall.args, 1)

\* C5, amended: that holds of a template with no % character; no placeholder
\* is left in the result when, besides, the prefix, the arguments and the
\* template outside its placeholders hold no brace.
C5_SubstitutionAmended ==
    Returned /\ ArityMatches /\ "%" \notin Range(urlCall.endpoint) =>
        /\ urlResult = urlCall.apiPrefix \o Substituted(urlCall.endpoint, urlCall.args, 1)
        /\ ( /\ NoBrace(urlCall.apiPrefix)
             /\ \A i \in 1..Len(urlCall.args) : NoBrace(ValueText(urlCall.args[i]))
             /\ NoBrace(Substituted(urlCall.endpoint,
                                    [i \in 1..Len(urlCall.args) |-> StringArg(<<>>)], 1))
             => ~HasPlaceholder(urlResult) )

\* C5, witness: the like endpoint built for cluster c1 and rule 42
C5_Witness ==
    /\ Returned
    /\ urlCall = [apiPrefix |-> <<"/", "a", "p", "i", "/", "v", "1", "/">>, endpoint |-> LikeRuleEndpoint,
                  args |-> <<StringArg(<<"c", "1">>), IntArg(42)>>]
    /\ urlResult = <<"/", "a", "p", "i", "/", "v", "1", "/", "c", "l", "u", "s", "t", "e", "r", "s", "/", "c", "1", "/", "r", "u", "l", "e", "s", "/", "4", "2", "/", "l", "i", "k", "e">>

\* C6: a call with more or fewer arguments than placeholders returns no string.
C6_ArityMismatchRejected ==
    ~ArityMatches => ~Returned

----------------------------------------------------------------------------
(* Properties of the command line *)

\* the command word a positional argument was written from; an argument
\* written from none (a flag after "--") stands for itself
WordOf(arg) ==
    IF \E w \in CommandWords : arg \in {w, Decorated(w)}
    THEN CHOOSE w \in CommandWords : arg \in {w, Decorated(w)}
    ELSE arg

\* the command asked for: start-service with no positional argument
AskedCommand ==
    IF flags.args = <<>> THEN CmdStartService ELSE WordOf(flags.args[1])

\* the process got as far as handleCommand and ended
Dispatched ==
    /\ pc = "exit"
    /\ flagsParsed
    /\ flags.err = ""
    /\ ~flags.showHelp
    /\ ~flags.showVersion

ActionOf(cmd) ==
    IF cmd = CmdStartService THEN <<"server.New", "server.Start">>
    ELSE IF cmd = CmdPrintVersion THEN <<"printVersionInfo">>
    ELSE IF cmd = CmdPrintHelp THEN <<"printHelp">>
    ELSE IF cmd = CmdPrintConfig THEN <<"printConfig">>
    ELSE IF cmd = CmdPrintEnv THEN <<"printEnv">>
    ELSE <<>>

AdvertisedCall(does) ==
    CASE does = "starts aggregator" -> "server.Start"
      [] does = "prints help" -> "printHelp"
      [] does = "prints current configuration" -> "printConfig"
      [] does = "prints env variables" -> "printEnv"
      [] does = "prints version info" -> "printVersionInfo"

\* the command as typed
TypedCommand == IF flags.args = <<>> THEN NoCommand ELSE flags.args[1]

\* C8: a command the help message lists does what the message says it does.
C8_HelpMessageCommands ==
    Dispatched =>
        \A row \in helpMessageTemplate :
            row.command = TypedCommand =>
                \E i \in 1..Len(calls) : calls[i] = AdvertisedCall(row.does)

\* C9: when the configuration cannot be loaded the process ends at once: no
\* flag is parsed, no command selected, no function called, no server
\* created; and a server is created or started only after the configuration
\* was loaded.
C9_ConfigurationLoadFatal ==
    /\ pc # "main" /\ ~configLoaded =>
         /\ pc = "exit"
         /\ exitStatus # Running
         /\ ~flagsParsed
         /\ command = <<>>
         /\ calls = <<>>
         /\ ~serverInstance
    /\ serverInstance \/ (\E i \in 1..Len(calls) : calls[i] = "server.Start")
         => configLoaded

\* C9, witness: start-service was asked for and the configuration did not load
C9_Witness ==
    /\ pc = "exit"
    /\ ~configLoaded
    /\ osArgs = <<CmdStartService>>
    /\ "configuration load" \in errors

\* C10: the process ends with status 0 or 1, and with 1 exactly when the
\* server failed to start, the configuration could not be loaded or
\* print-config could not serialise it.
C10_ExitCodes ==
    pc = "exit" =>
        /\ exitStatus \in {Exited(ExitStatusOK), Exited(ExitStatusServerError)}
        /\ exitStatus = Exited(ExitStatusServerError) <=>
             errors \cap {"server start", "configuration load",
                          "configuration marshal"} # {}

====
